---- MODULE Spec2Model ----
(***************************************************************************)
(* pyFRI: Python bindings (src/pyFRI/src/wrapper.cpp) around the KUKA FRI  *)
(* client SDK.                                                             *)
(*                                                                         *)
(* Two parts of the program are modelled.                                  *)
(*                                                                         *)
(*  1. The session side: PyClientApplication (constructor, connect,        *)
(*     disconnect, step) and the PyLBRClient trampolines that forward the  *)
(*     SDK's virtual calls to the Python object.  wrapper.cpp only         *)
(*     delegates to KUKA::FRI::ClientApplication, whose code is not part   *)
(*     of the source file; the cycle it runs (receive, advance the session *)
(*     state machine, select the callback) is modelled from the            *)
(*     specification, sections 4.1, 4.2 and 4.5.  The Python client is     *)
(*     taken to override all four callbacks (PYBIND11_OVERRIDE_PURE throws *)
(*     otherwise).                                                         *)
(*                                                                         *)
(*  2. The command side: the LBRCommand mutators bound by wrapper.cpp,     *)
(*     with their shape checks, their error messages and the way they read *)
(*     the NumPy buffer.  A NumPy array is modelled by its shape, its      *)
(*     element stride and the memory block its data pointer points to.     *)
(***************************************************************************)
EXTENDS Integers, Sequences, FiniteSets, TLC

VARIABLES
    app,        \* PyClientApplication::_app: "app" once constructed, "null" otherwise
    crashed,    \* TRUE once a null _app has been dereferenced
    connected,  \* the transport is open
    held,       \* the session state held by the session state machine
    missed,     \* missed-cycle counter (receive timed out)
    fed,        \* history: the decoded session states of this session, in order
    notes,      \* history: the <<old, new>> pairs the Python onStateChange received
    cbs,        \* history: per decoded cycle, the lifecycle methods Python received
    lastOp,     \* the last boundary operation of the session side
    cmd,        \* the LBRCommand: jointPosition, wrench, torque (<<>> = not set)
    lastCall    \* the last LBRCommand mutator call and how it ended

vars == <<app, crashed, connected, held, missed, fed, notes, cbs, lastOp, cmd, lastCall>>
sessionVars == <<app, crashed, connected, held, missed, fed, notes, cbs, lastOp>>
commandVars == <<cmd, lastCall>>

(***************************************************************************)
(* Bounds of the model.                                                    *)
(***************************************************************************)
MaxFeed == 5
MaxMissed == 2
MaxLen == 8
MaxSeed == 1

(***************************************************************************)
(* Enumerations and sizes.                                                 *)
(***************************************************************************)
SessionStates ==
    {"IDLE", "MONITORING_WAIT", "MONITORING_READY", "COMMANDING_WAIT", "COMMANDING_ACTIVE"}

NUMBER_OF_JOINTS == 7
WRENCH_LEN == 6

(***************************************************************************)
(* PyLBRClient: what the Python object receives for each virtual call.     *)
(***************************************************************************)
Mut_onStateChange_Swapped(oldState, newState) == <<"onStateChange", newState, oldState>>

PyLBRClient_onStateChange(oldState, newState) == <<"onStateChange", oldState, newState>>

PyLBRClient_monitor == <<"monitor">>

Mut_waitForCommand_AsCommand == <<"command">>

PyLBRClient_waitForCommand == <<"waitForCommand">>

PyLBRClient_command == <<"command">>

(***************************************************************************)
(* PyClientApplication's constructor: _app is created here, not in         *)
(* connect.                                                                *)
(***************************************************************************)
Mut_ctor_NoApp == "null"

PyClientApplication_ctor == "app"

(***************************************************************************)
(* The session state machine and the cycle.                                *)
(***************************************************************************)
callbackFor(s) ==
    CASE s \in {"MONITORING_WAIT", "MONITORING_READY"} -> "monitor"
      [] s = "COMMANDING_WAIT" -> "waitForCommand"
      [] s = "COMMANDING_ACTIVE" -> "command"
      [] s = "IDLE" -> "none"

advance(h, s) == [changed |-> h # s, held |-> s, callback |-> callbackFor(s)]

Dispatch(cb) ==
    CASE cb = "monitor" -> <<PyLBRClient_monitor>>
      [] cb = "waitForCommand" -> <<PyLBRClient_waitForCommand>>
      [] cb = "command" -> <<PyLBRClient_command>>
      [] cb = "none" -> <<>>

\* The calls one decoded cycle makes on the client, in order.
CycleCalls(h, s) ==
    LET r == advance(h, s)
    IN  (IF r.changed THEN <<PyLBRClient_onStateChange(h, s)>> ELSE <<>>)
        \o Dispatch(r.callback)

Mut_TimeoutCalls_Redispatch(h) == Dispatch(callbackFor(h))

\* The calls a cycle makes on the client when receive timed out.
TimeoutCalls(h) == <<>>

Notifications(calls) ==
    LET keep == SelectSeq(calls, LAMBDA c : c[1] = "onStateChange")
    IN  [i \in 1..Len(keep) |-> <<keep[i][2], keep[i][3]>>]

Lifecycle(calls) ==
    LET keep == SelectSeq(calls, LAMBDA c : c[1] # "onStateChange")
    IN  [i \in 1..Len(keep) |-> keep[i][1]]

(***************************************************************************)
(* The initial state: a constructed PyClientApplication and a              *)
(* default-constructed LBRCommand.                                         *)
(***************************************************************************)
NoCommand == [jointPosition |-> <<>>, wrench |-> <<>>, torque |-> <<>>]

Init ==
    /\ app = PyClientApplication_ctor
    /\ crashed = FALSE
    /\ connected = FALSE
    /\ held = "IDLE"
    /\ missed = 0
    /\ fed = <<>>
    /\ notes = <<>>
    /\ cbs = <<>>
    /\ lastOp = [op |-> "init", outcome |-> "none", wasConnected |-> FALSE]
    /\ cmd = NoCommand
    /\ lastCall = [op |-> "init", arr |-> <<>>, ok |-> TRUE, errShape |-> 0, before |-> NoCommand]

\* A call through a null _app.
NullDeref(op) ==
    /\ crashed' = TRUE
    /\ lastOp' = [op |-> op, outcome |-> "crash", wasConnected |-> connected]
    /\ UNCHANGED <<app, connected, held, missed, fed, notes, cbs>>

Connect ==
    /\ ~crashed
    /\ IF app = "null"
       THEN NullDeref("connect")
       ELSE \E ok \in BOOLEAN :
              /\ connected' = (connected \/ ok)
              /\ lastOp' = [op |-> "connect",
                            outcome |-> IF connected \/ ok THEN "true" ELSE "false",
                            wasConnected |-> connected]
              /\ UNCHANGED <<app, crashed, held, missed, fed, notes, cbs>>
    /\ UNCHANGED commandVars

Disconnect ==
    /\ ~crashed
    /\ IF app = "null"
       THEN NullDeref("disconnect")
       ELSE /\ connected' = FALSE
            /\ held' = "IDLE"
            /\ fed' = <<>>
            /\ notes' = <<>>
            /\ cbs' = <<>>
            /\ lastOp' = [op |-> "disconnect", outcome |-> "none", wasConnected |-> connected]
            /\ UNCHANGED <<app, crashed, missed>>
    /\ UNCHANGED commandVars

\* step() while the transport is closed: receive reports the closed connection.
StepClosed ==
    /\ ~crashed
    /\ ~connected
    /\ IF app = "null"
       THEN NullDeref("step")
       ELSE /\ lastOp' = [op |-> "step", outcome |-> "closed", wasConnected |-> connected]
            /\ UNCHANGED <<app, crashed, connected, held, missed, fed, notes, cbs>>
    /\ UNCHANGED commandVars

\* step() whose receive times out: the cycle is skipped and counted.
StepTimeout ==
    /\ ~crashed
    /\ connected
    /\ IF app = "null"
       THEN NullDeref("step")
       ELSE LET calls == TimeoutCalls(held)
            IN  /\ missed' = IF missed < MaxMissed THEN missed + 1 ELSE missed
                /\ notes' = notes \o Notifications(calls)
                /\ cbs' = IF calls = <<>> THEN cbs ELSE Append(cbs, Lifecycle(calls))
                /\ lastOp' = [op |-> "step", outcome |-> "timeout", wasConnected |-> connected]
                /\ UNCHANGED <<app, crashed, connected, held, fed>>
    /\ UNCHANGED commandVars

\* step() that receives and decodes a message carrying session state s.
StepMessage ==
    /\ ~crashed
    /\ connected
    /\ Len(fed) < MaxFeed
    /\ IF app = "null"
       THEN NullDeref("step")
       ELSE \E s \in SessionStates :
              LET calls == CycleCalls(held, s)
              IN  /\ held' = advance(held, s).held
                  /\ fed' = Append(fed, s)
                  /\ notes' = notes \o Notifications(calls)
                  /\ cbs' = Append(cbs, Lifecycle(calls))
                  /\ lastOp' = [op |-> "step", outcome |-> "message", wasConnected |-> connected]
                  /\ UNCHANGED <<app, crashed, connected, missed>>
    /\ UNCHANGED commandVars

Next == Connect \/ Disconnect \/ StepClosed \/ StepTimeout \/ StepMessage

Spec == Init /\ [][Next]_vars

(***************************************************************************)
(* NumPy arrays handed to the LBRCommand mutators.  An array has a shape   *)
(* (<<>> for a 0-dimensional array), an element stride for its first       *)
(* dimension, and a data pointer into a memory block whose k-th double     *)
(* holds seed + k.  py::array_t<double> does not ask for a C-contiguous    *)
(* array, so a strided view is handed over as it is.                       *)
(***************************************************************************)
Lens == {0} \cup ((WRENCH_LEN - 1)..MaxLen)

Shapes == {<<>>} \cup {<<n>> : n \in Lens} \cup {<<n, 2>> : n \in Lens}

Arrays == [shape : Shapes, stride : {1, 2}, seed : 0..MaxSeed]

ndim(arr) == Len(arr.shape)

\* The elements of a one-dimensional array, as Python sees them.
View(arr) == [i \in 1..arr.shape[1] |-> arr.seed + (i - 1) * arr.stride]

\* The shape test of the mutators: values.ndim() != 1 || DIMS[0] != n.
ShapeRejected(arr, n) == ndim(arr) # 1 \/ arr.shape[1] # n

\* buf.ptr read as n consecutive doubles (what the SDK setter copies).
BufferRead(arr, n) == [i \in 1..n |-> arr.seed + (i - 1)]

\* The length each mutator's error message names.
ShapeMessage_setJointPosition == NUMBER_OF_JOINTS

ShapeMessage_setWrench == NUMBER_OF_JOINTS

ShapeMessage_setTorque == NUMBER_OF_JOINTS

Rejected(op, arr, shapeInMessage) ==
    /\ lastCall' = [op |-> op, arr |-> arr, ok |-> FALSE,
                    errShape |-> shapeInMessage, before |-> cmd]
    /\ UNCHANGED cmd

Stored(op, arr, newCmd) ==
    /\ cmd' = newCmd
    /\ lastCall' = [op |-> op, arr |-> arr, ok |-> TRUE, errShape |-> 0, before |-> cmd]

setJointPosition ==
    /\ \E arr \in Arrays :
         IF ShapeRejected(arr, NUMBER_OF_JOINTS)
         THEN Rejected("setJointPosition", arr, ShapeMessage_setJointPosition)
         ELSE Stored("setJointPosition", arr,
                     [cmd EXCEPT !.jointPosition = BufferRead(arr, NUMBER_OF_JOINTS)])
    /\ UNCHANGED sessionVars

setWrench ==
    /\ \E arr \in Arrays :
         IF ShapeRejected(arr, WRENCH_LEN)
         THEN Rejected("setWrench", arr, ShapeMessage_setWrench)
         ELSE Stored("setWrench", arr, [cmd EXCEPT !.wrench = BufferRead(arr, WRENCH_LEN)])
    /\ UNCHANGED sessionVars

setTorque ==
    /\ \E arr \in Arrays :
         IF ShapeRejected(arr, NUMBER_OF_JOINTS)
         THEN Rejected("setTorque", arr, ShapeMessage_setTorque)
         ELSE Stored("setTorque", arr,
                     [cmd EXCEPT !.torque = BufferRead(arr, NUMBER_OF_JOINTS)])
    /\ UNCHANGED sessionVars

\* Not exposed: both throw whatever the input is.
setCartesianPose ==
    /\ \E arr \in Arrays : Rejected("setCartesianPose", arr, 0)
    /\ UNCHANGED sessionVars

setCartesianPoseAsMatrix ==
    /\ \E arr \in Arrays : Rejected("setCartesianPoseAsMatrix", arr, 0)
    /\ UNCHANGED sessionVars

NextCommand ==
    setJointPosition \/ setWrench \/ setTorque \/ setCartesianPose \/ setCartesianPoseAsMatrix

SpecCommand == Init /\ [][NextCommand]_vars

(***************************************************************************)
(* Properties.                                                             *)
(***************************************************************************)
RECURSIVE DiffPairs(_)
\* The adjacent pairs of seq that differ, in order.
DiffPairs(seq) ==
    IF Len(seq) < 2
    THEN <<>>
    ELSE (IF seq[1] # seq[2] THEN << <<seq[1], seq[2]>> >> ELSE <<>>) \o DiffPairs(Tail(seq))

\* C1: starting from held state IDLE, the onStateChange(old, new) notifications
\* the client received are exactly the adjacent differing pairs of the decoded
\* session states, in order, and the held state is the last decoded state.
C1_NotificationsAreDifferingPairs ==
    LET history == <<"IDLE">> \o fed
    IN  /\ notes = DiffPairs(history)
        /\ held = history[Len(history)]

C1_Witness ==
    /\ lastOp.outcome = "message"
    /\ Len(notes) >= 2
    /\ Len(fed) > Len(notes)
    /\ notes[1][2] = notes[2][1]

\* C2: every decoded cycle invokes at most one lifecycle callback, the one fixed
\* by the state held after advance: monitor for MONITORING_WAIT and
\* MONITORING_READY, waitForCommand for COMMANDING_WAIT, command for
\* COMMANDING_ACTIVE, none for IDLE.
C2_CallbackFixedByHeldState ==
    /\ Len(cbs) = Len(fed)
    /\ \A i \in 1..Len(fed) :
         /\ Len(cbs[i]) <= 1
         /\ (fed[i] = "IDLE") => cbs[i] = <<>>
         /\ (fed[i] = "MONITORING_WAIT") => cbs[i] = <<"monitor">>
         /\ (fed[i] = "MONITORING_READY") => cbs[i] = <<"monitor">>
         /\ (fed[i] = "COMMANDING_WAIT") => cbs[i] = <<"waitForCommand">>
         /\ (fed[i] = "COMMANDING_ACTIVE") => cbs[i] = <<"command">>

C2_Witness ==
    /\ fed = <<"IDLE", "MONITORING_WAIT", "MONITORING_READY",
               "COMMANDING_WAIT", "COMMANDING_ACTIVE">>
    /\ cbs = << <<>>, <<"monitor">>, <<"monitor">>, <<"waitForCommand">>, <<"command">> >>
    /\ Len(notes) = 4

\* C3: a step() whose receive times out leaves the held session state unchanged
\* and invokes none of onStateChange, monitor, waitForCommand, command; only the
\* missed-cycle counter may change.
C3_TimeoutChangesOnlyCounter ==
    [][StepTimeout => UNCHANGED <<app, crashed, connected, held, fed, notes, cbs>>]_vars

C3_Witness ==
    /\ lastOp.outcome = "timeout"
    /\ missed >= 2
    /\ held = "COMMANDING_ACTIVE"
    /\ cbs # <<>>

\* C7: disconnect() never fails, leaves the transport closed and the held state
\* IDLE, and changes nothing when the transport was not connected (before any
\* connect, or right after a disconnect); a connect() can follow.
C7_DisconnectIdempotent ==
    [][Disconnect =>
         /\ ~crashed'
         /\ app' = "app"
         /\ ~connected'
         /\ held' = "IDLE"
         /\ (~connected => UNCHANGED <<app, crashed, connected, held, missed, fed, notes, cbs>>)
      ]_vars

C7_Witness ==
    /\ lastOp.op = "disconnect"
    /\ ~lastOp.wasConnected
    /\ missed > 0
    /\ ~crashed
    /\ ~connected
    /\ held = "IDLE"

RequiredLength(op) == IF op = "setWrench" THEN 6 ELSE 7

StoredField(op) ==
    CASE op = "setJointPosition" -> cmd.jointPosition
      [] op = "setWrench" -> cmd.wrench
      [] op = "setTorque" -> cmd.torque

ArrayMutators == {"setJointPosition", "setWrench", "setTorque"}

\* C5: a mutator called with an input that is not one-dimensional of the
\* required length fails and leaves the command as it was; an input of the
\* required shape is stored unchanged (its elements, neither truncated nor
\* padded).
C5_MutatorStoresInputOrRejects ==
    lastCall.op \in ArrayMutators =>
        LET a == lastCall.arr
            required == Len(a.shape) = 1 /\ a.shape[1] = RequiredLength(lastCall.op)
        IN  IF required
            THEN lastCall.ok /\ StoredField(lastCall.op) = View(a)
            ELSE ~lastCall.ok /\ cmd = lastCall.before

\* C6: a rejection for a wrong array length reports the length the field
\* mandates: 7 for joint position and torque, 6 for wrench.
C6_RejectionReportsMandatedLength ==
    (/\ lastCall.op \in ArrayMutators
     /\ ~lastCall.ok
     /\ Len(lastCall.arr.shape) = 1) => lastCall.errShape = RequiredLength(lastCall.op)

====
